---- MODULE Spec2Model ----
(***************************************************************************)
(* Model of the VM-retirement console (app.py, performance/metrics.py):    *)
(* the launch handler, the job record store, the AAP job monitor, the      *)
(* status mapper, the job queries and the background monitoring loop.      *)
(*                                                                         *)
(* Strings that the code converts (the orchestrator's status, lower-cased  *)
(* by the mapper) are sequences of one-character strings.  Timestamps are  *)
(* integers in seconds on one axis.  A float ratio is kept exact as        *)
(* [num, den].                                                             *)
(***************************************************************************)
EXTENDS Integers, Sequences, FiniteSets, TLC

\* ---------------------------------------------------------------- bounds
MaxJobs == 2
MaxHosts == 6
MaxTicks == 1
MaxHistory == 2
MaxCasePos == 3

\* ------------------------------------------------------ program constants
MinRecordNames == 1
MaxRecordNames == 5
ErrorStatusFloor == 400
OkStatus == 200
PollerWindowHours == 48
DetailWindowHours == 168
DefaultWindowHours == 24
SecondsPerHour == 3600
TickSeconds == PollerWindowHours * SecondsPerHour

\* Optional values: Null is None, Some(x) a present value.  A null string is
\* NullStr, a one-element sequence whose element is no character.
Null == <<>>
Some(x) == <<x>>
NullStr == <<"<null>">>

\* ------------------------------------------------------------- characters
LowerLetters ==
  <<"a","b","c","d","e","f","g","h","i","j","k","l","m",
    "n","o","p","q","r","s","t","u","v","w","x","y","z">>
UpperLetters ==
  <<"A","B","C","D","E","F","G","H","I","J","K","L","M",
    "N","O","P","Q","R","S","T","U","V","W","X","Y","Z">>

\* str.lower() on one character: an upper-case ASCII letter becomes its
\* lower-case letter, every other character is left alone.
LowerTable ==
  [ c \in { UpperLetters[i] : i \in 1..Len(UpperLetters) } |->
      LowerLetters[CHOOSE i \in 1..Len(UpperLetters) : UpperLetters[i] = c] ]

UpperTable ==
  [ c \in { LowerLetters[i] : i \in 1..Len(LowerLetters) } |->
      UpperLetters[CHOOSE i \in 1..Len(LowerLetters) : LowerLetters[i] = c] ]

LowerChar(c) == IF c \in DOMAIN LowerTable THEN LowerTable[c] ELSE c

UpperChar(c) == IF c \in DOMAIN UpperTable THEN UpperTable[c] ELSE c

\* str.lower() on a string
Lower(s) == [i \in 1..Len(s) |-> LowerChar(s[i])]

\* ------------------------------------------------------ the status mapper
W_pending == <<"p","e","n","d","i","n","g">>
W_waiting == <<"w","a","i","t","i","n","g">>
W_running == <<"r","u","n","n","i","n","g">>
W_successful == <<"s","u","c","c","e","s","s","f","u","l">>
W_failed == <<"f","a","i","l","e","d">>
W_error == <<"e","r","r","o","r">>
W_canceled == <<"c","a","n","c","e","l","e","d">>
W_never_updated == <<"n","e","v","e","r"," ","u","p","d","a","t","e","d">>
W_unknown == <<"u","n","k","n","o","w","n">>
W_new == <<"n","e","w">>
W_bogus == <<"b","o","g","u","s">>
W_cancelled == <<"c","a","n","c","e","l","l","e","d">>
W_success == <<"s","u","c","c","e","s","s">>
W_empty == <<>>

\* variant: the states without a counterpart keep the orchestrator's name
status_map_Native ==
  { <<W_pending, "pending">>, <<W_waiting, "waiting">>,
    <<W_running, "running">>, <<W_successful, "successful">>,
    <<W_failed, "failed">>, <<W_error, "failed">>,
    <<W_canceled, "canceled">>, <<W_never_updated, "never updated">> }
\* status_map of _map_aap_status: key -> canonical status
status_map ==
  { <<W_pending, "pending">>, <<W_waiting, "pending">>,
    <<W_running, "running">>, <<W_successful, "successful">>,
    <<W_failed, "failed">>, <<W_error, "failed">>,
    <<W_canceled, "failed">>, <<W_never_updated, "pending">> }

MapKeys == { e[1] : e \in status_map }

\* dict.get(key, default)
DictGet(d, key, default) ==
  IF \E e \in d : e[1] = key
  THEN (CHOOSE e \in d : e[1] = key)[2]
  ELSE default

\* status_map.get(aap_status.lower(), 'unknown'); a status that is not a
\* string has no .lower(): the call raises (the value AttributeError)
AttributeError == "AttributeError"

\* variant: the status is looked up as received
MapLowered_AsReceived(aap_status) == aap_status
MapLowered(aap_status) == Lower(aap_status)

_map_aap_status(aap_status) ==
  IF aap_status = NullStr
  THEN AttributeError
  ELSE DictGet(status_map, MapLowered(aap_status), "unknown")

CanonicalStatuses == {"pending", "running", "successful", "failed", "unknown"}

\* ---------------------------------------------------------------- values
Digits == <<"0","1","2","3","4","5","6","7","8","9">>

\* str(job_id) for a non-negative integer
RECURSIVE Str(_)
Str(n) == IF n < 10 THEN <<Digits[n + 1]>>
          ELSE Str(n \div 10) \o <<Digits[(n % 10) + 1]>>

JobIds == 1..MaxJobs
JobKeys == { Str(i) : i \in JobIds }

HostName(i) == <<"vm", i>>
\* the submitted record_names: n host names, in ascending or descending order
HostList(n, rev) == [i \in 1..n |-> IF rev THEN HostName(n + 1 - i) ELSE HostName(i)]
\* the host counts submitted: the empty list, the counts around both limits,
\* and one list of two names in descending order
ReversedCount == MinRecordNames + 1
HostCounts == {0, ReversedCount} \cup (MaxRecordNames..MaxHosts)
HostLists == { HostList(n, n = ReversedCount) : n \in HostCounts }

AAP_TEMPLATE_ID == "66"
DefaultDnsServer == "chrpr2dc38.chrobinson.com"
DefaultDnsZone == "chrobinson.com"

NoJob == [absent |-> TRUE]
\* the value of a call that raised, and Python's None where a record is expected
Raised == [raised |-> TRUE]
NoneRec == [none |-> TRUE]

VARIABLES
  AAP_TOKEN,     \* TRUE when the AAP_TOKEN setting is non-empty
  job_monitor,   \* TRUE when the global job_monitor holds an AAPJobMonitor
  store,         \* retirement_jobs table: job key -> row or NoJob
  history,       \* job_status_history table: job key -> sequence of entries
  orch,          \* the orchestrator's jobs: job id -> creation time and payload, or NoJob
  now,           \* the clock, in seconds
  poller,        \* the background task: pc, queue, current_jobs, last_checked_jobs
  resp,          \* the response of the operation that ran in the last step
  calls,         \* the outbound orchestrator calls made by the last step
  emitted,       \* the notifications emitted by the last step
  env,           \* the faults the environment injected into the last step
  aap_status,    \* input under test of the status mapper
  mapped,        \* its result
  req,           \* the request the last step answered: route, credentials, rate limit
  tx,            \* the open write transaction on the store, or NoTx
  inflight,      \* the monitor_job calls between their status query and their write
  table          \* the rows of retirement_jobs one by one, as the row-level writes keep them

vars == <<AAP_TOKEN, job_monitor, store, history, orch, now, poller,
          resp, calls, emitted, env, aap_status, mapped, req, tx, inflight, table>>

\* the request a step answers: its route, whether it carries valid Basic
\* credentials, whether the rate limiter has the client over its limit
Request(route, auth, limited) == [route |-> route, auth |-> auth, limited |-> limited]
NoRequest == [route |-> "none"]
\* variant: the credentials check lets every request through
AuthDenied_Never(auth) == FALSE
\* requires_auth: the request is answered by authenticate() when it carries
\* no credentials or check_auth refuses them; auth: valid credentials
AuthDenied(auth) == ~auth
\* the callers of monitor_job that can overlap: the background task and a
\* synchronous refresh
Callers == {"poller", "refresh"}
NoRead == [seq |-> 0]
\* no monitor_job call is between its query and its write; seq counts the
\* status queries answered, latest is the answer to the last of them, stored
\* is the query whose result the store holds, finished tells whether the
\* orchestrator's job has ended
NoneInFlight ==
  [ seq |-> 0, latest |-> NoRead, stored |-> 0, finished |-> FALSE,
    pending |-> [c \in Callers |-> NoRead] ]
\* no write transaction is open on the store; outcome: how the last one ended
Closed(outcome) == [stage |-> "none", outcome |-> outcome]
NoTx == Closed("none")

\* ------------------------------------------------------ job record store
Ratio(n, d) == [num |-> n, den |-> d]

\* RetirementJobMetrics(...): the dataclass with its defaults
RetirementJobMetrics(job_id, status, job_type, target_hosts, start_time, end_time, duration_seconds, success_rate, errors, aap_template_id, extra_vars) ==
  [ job_id |-> job_id, status |-> status, job_type |-> job_type,
    target_hosts |-> target_hosts, start_time |-> start_time,
    end_time |-> end_time, duration_seconds |-> duration_seconds,
    success_rate |-> success_rate, errors |-> errors,
    aap_template_id |-> aap_template_id, extra_vars |-> extra_vars ]

\* one row of job_status_history written by track_retirement_job
HistoryEntry(job_metrics, t) ==
  [ status |-> job_metrics.status, timestamp |-> t,
    details |-> <<"Job ", job_metrics.status>> ]

\* track_retirement_job: INSERT OR REPLACE of the row keyed by job_id and
\* INSERT of one history row, committed together by the connection context
TrackStore(st, job_metrics) == [st EXCEPT ![job_metrics.job_id] = job_metrics]

\* variant: the history row of a job is replaced like its retirement_jobs row
TrackHistory_Replace(h, job_metrics, t) ==
  [h EXCEPT ![job_metrics.job_id] = << HistoryEntry(job_metrics, t) >>]
TrackHistory(h, job_metrics, t) ==
  [h EXCEPT ![job_metrics.job_id] = Append(@, HistoryEntry(job_metrics, t))]

\* the rows get_retirement_jobs selects: start_time > now - hours, and the
\* status filter when one is given
SelectedRows(st, t, hours, status) ==
  { st[k] : k \in { k2 \in JobKeys :
        /\ st[k2] # NoJob
        /\ st[k2].start_time > t - hours * SecondsPerHour
        /\ (status # Null => st[k2].status = status[1]) } }

\* get_retirement_jobs: the selected rows ORDER BY start_time DESC; rows of
\* equal start_time come in either order
get_retirement_jobs(st, t, hours, status) ==
  LET rows == SelectedRows(st, t, hours, status)
      n == Cardinality(rows)
  IN { q \in [1..n -> rows] :
         /\ \A i, j \in 1..n : i # j => q[i] # q[j]
         /\ \A i, j \in 1..n : i < j => q[i].start_time >= q[j].start_time }

RECURSIVE SumLen(_, _)
SumLen(h, keys) ==
  IF keys = {} THEN 0
  ELSE LET k == CHOOSE x \in keys : TRUE
       IN Len(h[k]) + SumLen(h, keys \ {k})

\* the model stops writing when the history table holds MaxHistory rows
HistoryBounded(h) == SumLen(h, JobKeys) <= MaxHistory

\* next((j for j in jobs if j.job_id == job_id), None)
FindJob(jobs, job_id) ==
  IF \E i \in 1..Len(jobs) : jobs[i].job_id = job_id
  THEN jobs[CHOOSE i \in 1..Len(jobs) : jobs[i].job_id = job_id]
  ELSE NoJob

\* ------------------------------------------------------- the orchestrator
JobDurationSeconds == SecondsPerHour \div 12

\* a job document as GET /api/v2/jobs/{id}/ returns it
JobDoc(c, status, started, finished, failed, result_stdout, job_explanation, extra_vars) ==
  [ created |-> c, status |-> status, started |-> started, finished |-> finished,
    failed |-> failed, result_stdout |-> result_stdout,
    job_explanation |-> job_explanation,
    job_template |-> Some(AAP_TEMPLATE_ID), extra_vars |-> Some(extra_vars) ]

\* the documents the orchestrator can hold for a job it accepted at time c
OrchDocs(c, ev) ==
  { JobDoc(c, W_pending, Null, Null, 0, Null, Null, ev),
    JobDoc(c, W_new, Null, Null, 0, Null, Null, ev),
    JobDoc(c, W_running, Some(c), Null, 0, Null, Null, ev),
    JobDoc(c, W_successful, Some(c), Some(c + JobDurationSeconds), 0, Null, Null, ev),
    JobDoc(c, W_failed, Some(c), Some(c + JobDurationSeconds), 1,
           Some(<<"PLAY", "FAILED">>), Some("Task failed"), ev) }

\* outcomes of one HTTP call to the orchestrator
Timeout == [kind |-> "timeout"]
ConnectionError == [kind |-> "connection_error"]
Response(code, body) == [kind |-> "response", status_code |-> code, body |-> body]
NotJson == [notjson |-> TRUE]

GetStatusCodes == {200, 404}

\* what requests.get of job id j can produce: a failure, a body that is not
\* a job document, or any document the orchestrator can hold for that job
GetOutcomes(o, j) ==
  {Timeout, ConnectionError}
    \cup { Response(c, NotJson) : c \in GetStatusCodes }
    \cup (IF j \in DOMAIN o /\ o[j] # NoJob
          THEN { Response(OkStatus, d) : d \in OrchDocs(o[j].created, o[j].extra_vars) }
          ELSE {})

\* the job id a job key of a request path denotes at the orchestrator
KeyId(k) == IF \E i \in JobIds : Str(i) = k
            THEN CHOOSE i \in JobIds : Str(i) = k ELSE 0

\* ----------------------------------------------------------- job monitor
\* _extract_job_errors: only for the exact statuses 'failed' and 'error'
_extract_job_errors(job_data) ==
  IF job_data.status \in {W_failed, W_error}
  THEN (IF job_data.result_stdout # Null
           /\ \E i \in 1..Len(job_data.result_stdout[1]) :
                 job_data.result_stdout[1][i] \in {"FAILED", "ERROR"}
        THEN <<"Job execution failed - check AAP logs for details">> ELSE <<>>)
       \o (IF job_data.job_explanation # Null
           THEN <<job_data.job_explanation[1]>> ELSE <<>>)
  ELSE <<>>

\* variant: only the finish timestamp is tested
Duration_FinishOnly(start_time, end_time) ==
  IF end_time # Null
  THEN Some(end_time[1] - (IF start_time # Null THEN start_time[1] ELSE 0))
  ELSE Null
\* duration = (end_dt - start_dt).total_seconds() if start_time and end_time
Duration(start_time, end_time) ==
  IF start_time # Null /\ end_time # Null
  THEN Some(end_time[1] - start_time[1]) ELSE Null

\* variant: the share of the failed hosts
SuccessRate_FailedShare(target_hosts, failed_hosts) ==
  IF Len(target_hosts) > 0
  THEN Ratio(failed_hosts * 100, Len(target_hosts))
  ELSE Ratio(0, 1)
\* success_rate = ((total - failed) / total * 100) if total > 0 else 0
SuccessRate(target_hosts, failed_hosts) ==
  LET total_hosts == Len(target_hosts)
  IN IF total_hosts > 0
     THEN Ratio((total_hosts - failed_hosts) * 100, total_hosts)
     ELSE Ratio(0, 1)

\* the job_metrics of the status_code == 200 branch; Raised when the branch
\* raises (body not JSON, status null)
OkMetrics(job_id, target_hosts, job_type, job_data, t) ==
  IF job_data = NotJson THEN Raised
  ELSE LET status == _map_aap_status(job_data.status)
       IN IF status = AttributeError THEN Raised
          ELSE RetirementJobMetrics(job_id, status, job_type, target_hosts,
                 IF job_data.started # Null THEN job_data.started[1] ELSE t,
                 job_data.finished,
                 Duration(job_data.started, job_data.finished),
                 SuccessRate(target_hosts, job_data.failed),
                 _extract_job_errors(job_data),
                 job_data.job_template, job_data.extra_vars)

\* the job_metrics of the except branch
ErrorMetrics(job_id, target_hosts, job_type, t) ==
  RetirementJobMetrics(job_id, "error", job_type, target_hosts, t,
                       Null, Null, Ratio(0, 1), <<"Monitoring error">>, Null, Null)

\* what the response status of the GET selects: the 200 branch or nothing
IsOkResponse(get) == get.kind = "response" /\ get.status_code = OkStatus

\* monitor_job: ret is the returned job_metrics, None (the implicit return
\* of a non-200 response) or Raised; written is the sequence of job_metrics
\* that track_retirement_job committed.  w1 and w2 tell whether the write of
\* the try branch and the write of the except branch succeed.
monitor_job(job_id, target_hosts, job_type, get, w1, w2, t) ==
  LET err == ErrorMetrics(job_id, target_hosts, job_type, t)
      onError == IF w2 THEN [ret |-> err, written |-> <<err>>]
                 ELSE [ret |-> Raised, written |-> <<>>]
  IN IF get.kind # "response" THEN onError
     ELSE IF IsOkResponse(get)
     THEN LET m == OkMetrics(job_id, target_hosts, job_type, get.body, t)
          IN IF m = Raised THEN onError
             ELSE IF w1 THEN [ret |-> m, written |-> <<m>>]
             ELSE onError
     ELSE [ret |-> NoneRec, written |-> <<>>]

\* the store and the history after the writes of one monitor_job call
RECURSIVE ApplyStore(_, _)
ApplyStore(st, written) ==
  IF written = <<>> THEN st
  ELSE ApplyStore(TrackStore(st, Head(written)), Tail(written))

RECURSIVE ApplyHistory(_, _, _)
ApplyHistory(h, written, t) ==
  IF written = <<>> THEN h
  ELSE ApplyHistory(TrackHistory(h, Head(written), t), Tail(written), t)

\* ------------------------------------------------------------ job launcher
\* the JSON body of a launch request: record_names, the optional dns_server
\* override, and the four schedule_* fields (shutdown date and time, retire
\* date and time), which are passed through unchanged and kept as one value
LaunchData(record_names, dns_server) ==
  [ record_names |-> record_names, dns_server |-> dns_server,
    schedule |-> "2025-07-10 20:00 / 2025-07-11 22:00" ]

LaunchInputs == { LaunchData(h, Null) : h \in HostLists }

\* extra_vars as launch_job formats it
ExtraVars(data) ==
  [ record_names |-> data.record_names,
    schedule |-> data.schedule,
    dns_server |-> IF data.dns_server # Null THEN data.dns_server[1] ELSE DefaultDnsServer,
    dns_zone |-> DefaultDnsZone ]

\* variant: only the empty list is refused
InvalidRecordNames_NoUpperLimit(record_names) ==
  Len(record_names) < MinRecordNames
\* len(record_names) < 1 or len(record_names) > 5
InvalidRecordNames(record_names) ==
  Len(record_names) < MinRecordNames \/ Len(record_names) > MaxRecordNames

\* the orchestrator's answer to the launch POST: a job document with the
\* id of the job it created, a JSON object without id, or a body that is
\* not JSON
LaunchBody(id) == [id |-> id, url |-> IF id # Null THEN Some(<<"/api/v2/jobs/", id[1]>>) ELSE Null]
OtherException == [kind |-> "exception"]
NoCall == [kind |-> "no_call"]

FreeIds(o) == { j \in JobIds : o[j] = NoJob }

PostOutcomes(o) ==
  {Timeout, ConnectionError, OtherException}
    \cup { Response(c, b) : c \in {400, 503}, b \in {NotJson, LaunchBody(Null)} }
    \cup { Response(201, b) : b \in {NotJson, LaunchBody(Null)} }
    \cup { Response(302, b) : b \in {NotJson, LaunchBody(Null)} }
    \cup (IF FreeIds(o) # {}
          THEN { Response(201, LaunchBody(Some(CHOOSE j \in FreeIds(o) :
                                  \A k \in FreeIds(o) : j <= k))) }
          ELSE {})

\* variant: status_code > 400
IsErrorStatus_Above(code) == code > ErrorStatusFloor
\* job_response.status_code >= 400
IsErrorStatus(code) == code >= ErrorStatusFloor

\* variant: the status of the response is not looked at
LaunchAccepted_AnyStatus(post) ==
  /\ post.kind = "response"
  /\ post.body # NotJson
\* the launch was accepted: a response below 400 whose body parses
LaunchAccepted(post) ==
  /\ post.kind = "response"
  /\ ~IsErrorStatus(post.status_code)
  /\ post.body # NotJson

\* variant: a timed-out launch call is sent once more
LaunchCalls_Retry(extra_vars, post) ==
  IF post.kind = "timeout"
  THEN << [call |-> "launch", extra_vars |-> extra_vars],
          [call |-> "launch", extra_vars |-> extra_vars] >>
  ELSE << [call |-> "launch", extra_vars |-> extra_vars] >>
\* the outbound calls of launch_job on a valid submission: one requests.post,
\* whatever its outcome
LaunchCalls(extra_vars, post) == << [call |-> "launch", extra_vars |-> extra_vars] >>

\* variant: the initial entry is stored as running
LaunchMetrics_Running(job_id, record_names, extra_vars, t) ==
  RetirementJobMetrics(Str(job_id), "running", "retirement", record_names, t,
                       Null, Null, Ratio(0, 1), <<>>, Some(AAP_TEMPLATE_ID),
                       Some(extra_vars))
\* the initial tracking entry of launch_job
LaunchMetrics(job_id, record_names, extra_vars, t) ==
  RetirementJobMetrics(Str(job_id), "pending", "retirement", record_names, t,
                       Null, Null, Ratio(0, 1), <<>>, Some(AAP_TEMPLATE_ID),
                       Some(extra_vars))

\* the store write of the tracking block is committed when the database
\* works; otherwise the AAPJobMonitor constructor or track_retirement_job
\* raises and nothing is written
TrackingCommitted(db) == db

LaunchResponse(auth, limited, data, post, code, success, job_id, job_url) ==
  [ op |-> "launch", admitted |-> auth /\ ~limited,
    record_names |-> data.record_names, post |-> post, code |-> code,
    success |-> success, job_id |-> job_id, job_url |-> job_url ]

\* variant: a failure of the tracking block fails the request
AcceptedResponse_FailOnTracking(auth, limited, data, post, trackingError) ==
  IF trackingError
  THEN LaunchResponse(auth, limited, data, post, 500, FALSE, Null, Null)
  ELSE LaunchResponse(auth, limited, data, post, 200, TRUE, post.body.id, post.body.url)
\* what launch_job answers once the orchestrator accepted the job and the
\* tracking block has run; trackingError: the block raised (the exception is
\* logged and swallowed by its except clause)
AcceptedResponse(auth, limited, data, post, trackingError) ==
  LaunchResponse(auth, limited, data, post, 200, TRUE, post.body.id, post.body.url)

\* POST /api/launch-job
launch_job(auth, limited, data, post, db, emitOK) ==
  LET fail(code, p) == /\ resp' = LaunchResponse(auth, limited, data, p, code, FALSE, Null, Null)
                       /\ UNCHANGED <<job_monitor, store, history, orch>>
                       /\ emitted' = <<>>
      extra_vars == ExtraVars(data)
  IN
  /\ UNCHANGED <<AAP_TOKEN, now, poller, aap_status, mapped, tx, inflight, table>>
  /\ env' = [db |-> db, emitOK |-> emitOK]
  /\ req' = Request("launch", auth, limited)
  /\ IF limited THEN fail(429, NoCall) /\ calls' = <<>>
     ELSE IF AuthDenied(auth) THEN fail(401, NoCall) /\ calls' = <<>>
     ELSE IF ~AAP_TOKEN THEN fail(500, NoCall) /\ calls' = <<>>
     ELSE IF InvalidRecordNames(data.record_names) THEN fail(400, NoCall) /\ calls' = <<>>
     ELSE
       /\ calls' = LaunchCalls(extra_vars, post)
       /\ IF ~LaunchAccepted(post) THEN fail(500, post)
          ELSE LET job_id == post.body.id
                   tracked == job_id # Null /\ TrackingCommitted(db)
                   trackingError == job_id # Null /\ (~db \/ ~emitOK)
                   m == LaunchMetrics(job_id[1], data.record_names, extra_vars, now)
               IN /\ orch' = IF job_id # Null
                             THEN [orch EXCEPT ![job_id[1]] =
                                     [created |-> now, extra_vars |-> extra_vars]]
                             ELSE orch
                  /\ job_monitor' = (job_monitor \/ job_id # Null)
                  /\ store' = IF tracked THEN TrackStore(store, m) ELSE store
                  /\ history' = IF tracked THEN TrackHistory(history, m, now) ELSE history
                  /\ emitted' = IF tracked /\ emitOK
                                THEN << [event |-> "job_started", job_id |-> Str(job_id[1]),
                                         status |-> "pending",
                                         target_hosts |-> data.record_names] >>
                                ELSE <<>>
                  /\ resp' = AcceptedResponse(auth, limited, data, post, trackingError)
       /\ HistoryBounded(history')

\* ------------------------------------------------- monitor request handlers
JobUpdate(job_id, m) ==
  [ event |-> "job_update", job_id |-> job_id, status |-> m.status,
    duration_seconds |-> m.duration_seconds, success_rate |-> m.success_rate,
    errors |-> m.errors ]

\* the body of a synchronous monitor request is Null (no JSON body),
\* Some(<<>>) (a JSON object without target_hosts) or its own target_hosts
OwnHostsBody == Some(HostList(1, FALSE))

\* target_hosts of monitor_job_status: from the request, else from the row
\* of the job within the last week
RequestTargetHosts(body, jobs, job_id) ==
  IF body[1] # <<>> THEN body[1]
  ELSE IF FindJob(jobs, job_id) # NoJob THEN FindJob(jobs, job_id).target_hosts
  ELSE <<>>

MonitorResponse(job_id, code, r) ==
  [ op |-> "monitor", job_id |-> job_id, code |-> code, mon |-> r ]

\* the outcome of the monitor_job call an operation made in this step
\* (of the returned job_metrics the status and the errors are kept)
Returned(ret) ==
  IF ret = Raised \/ ret = NoneRec THEN ret
  ELSE [status |-> ret.status, errors |-> ret.errors]

MonCall(job_id, target_hosts, get, r) ==
  [ job_id |-> job_id, get |-> get, ret |-> Returned(r.ret), writes |-> Len(r.written) ]
NoMonCall == [nocall |-> TRUE]
NoEnv == [none |-> TRUE]

\* POST /api/retirement/jobs/<job_id>/monitor
monitor_job_status(auth, job_id, body, get, w1, w2, emitOK) ==
  LET answer(code) == /\ resp' = MonitorResponse(job_id, code, NoMonCall)
                      /\ UNCHANGED <<store, history>>
                      /\ calls' = <<>> /\ emitted' = <<>>
  IN
  /\ UNCHANGED <<AAP_TOKEN, job_monitor, orch, now, poller, aap_status, mapped, tx, inflight, table>>
  /\ env' = [w1 |-> w1, w2 |-> w2, emitOK |-> emitOK]
  /\ req' = Request("monitor", auth, FALSE)
  /\ IF AuthDenied(auth) THEN answer(401)
     ELSE IF ~job_monitor THEN answer(503)
     ELSE IF body = Null THEN answer(500)
     ELSE \E jobs \in get_retirement_jobs(store, now, DetailWindowHours, Null) :
       LET target_hosts == RequestTargetHosts(body, jobs, job_id)
           r == monitor_job(job_id, target_hosts, "retirement", get, w1, w2, now)
           mc == MonCall(job_id, target_hosts, get, r)
       IN IF target_hosts = <<>> THEN answer(400)
          ELSE /\ calls' = << [call |-> "get_job", job_id |-> job_id] >>
               /\ store' = ApplyStore(store, r.written)
               /\ history' = ApplyHistory(history, r.written, now)
               /\ HistoryBounded(history')
               /\ IF r.ret = Raised \/ r.ret = NoneRec
                  THEN emitted' = <<>> /\ resp' = MonitorResponse(job_id, 500, mc)
                  ELSE IF ~emitOK
                  THEN emitted' = <<>> /\ resp' = MonitorResponse(job_id, 500, mc)
                  ELSE /\ emitted' = << JobUpdate(job_id, r.ret) >>
                       /\ resp' = MonitorResponse(job_id, 200, mc)

DetailResponse(job_id, code, job, r) ==
  [ op |-> "details", job_id |-> job_id, code |-> code, job |-> job, mon |-> r ]

\* GET /api/retirement/jobs/<job_id>
get_job_details(auth, job_id, get, w1, w2) ==
  /\ UNCHANGED <<AAP_TOKEN, job_monitor, orch, now, poller, aap_status, mapped, tx, inflight, table>>
  /\ emitted' = <<>>
  /\ env' = [w1 |-> w1, w2 |-> w2, emitOK |-> TRUE]
  /\ req' = Request("details", auth, FALSE)
  /\ IF AuthDenied(auth)
     THEN /\ resp' = DetailResponse(job_id, 401, NoJob, NoMonCall)
          /\ UNCHANGED <<store, history>> /\ calls' = <<>>
     ELSE \E jobs \in get_retirement_jobs(store, now, DetailWindowHours, Null) :
       LET job == FindJob(jobs, job_id)
       IN IF job = NoJob
          THEN /\ resp' = DetailResponse(job_id, 404, NoJob, NoMonCall)
               /\ UNCHANGED <<store, history>> /\ calls' = <<>>
          ELSE IF job_monitor /\ job.status \in {"pending", "running"}
          THEN LET r == monitor_job(job_id, job.target_hosts, job.job_type, get, w1, w2, now)
                   mc == MonCall(job_id, job.target_hosts, get, r)
               IN /\ calls' = << [call |-> "get_job", job_id |-> job_id] >>
                  /\ store' = ApplyStore(store, r.written)
                  /\ history' = ApplyHistory(history, r.written, now)
                  /\ HistoryBounded(history')
                  /\ resp' = IF r.ret = Raised THEN DetailResponse(job_id, 200, job, mc)
                             ELSE IF r.ret = NoneRec THEN DetailResponse(job_id, 500, NoJob, mc)
                             ELSE DetailResponse(job_id, 200, r.ret, mc)
          ELSE /\ resp' = DetailResponse(job_id, 200, job, NoMonCall)
               /\ UNCHANGED <<store, history>> /\ calls' = <<>>

\* GET /api/retirement/jobs?hours=&status=
get_retirement_jobs_endpoint(auth, hours, status) ==
  /\ UNCHANGED <<AAP_TOKEN, job_monitor, store, history, orch, now, poller,
                 aap_status, mapped, tx, inflight, table>>
  /\ calls' = <<>> /\ emitted' = <<>> /\ env' = NoEnv
  /\ req' = Request("jobs", auth, FALSE)
  /\ IF AuthDenied(auth) THEN resp' = [op |-> "jobs", code |-> 401, jobs |-> <<>>]
     ELSE \E jobs \in get_retirement_jobs(store, now, hours, status) :
            resp' = [op |-> "jobs", code |-> 200, jobs |-> jobs]

\* ------------------------------------------------------ background poller
PollerState(pc, queue, current_jobs, last_checked_jobs, total_active) ==
  [ pc |-> pc, queue |-> queue, current_jobs |-> current_jobs,
    last_checked_jobs |-> last_checked_jobs, total_active |-> total_active ]

\* for job in active_jobs + pending_jobs
PollQueue(active_jobs, pending_jobs) == active_jobs \o pending_jobs

\* top of one iteration of background_job_monitoring: list the running and
\* the pending jobs of the last 48 hours; a failing listing ends the iteration
PollerList(db) ==
  /\ poller.pc = "sleep"
  /\ UNCHANGED <<AAP_TOKEN, job_monitor, store, history, orch, now, aap_status, mapped, tx, inflight, table>>
  /\ calls' = <<>> /\ emitted' = <<>> /\ env' = [db |-> db]
  /\ req' = NoRequest
  /\ IF ~db
     THEN /\ poller' = poller
          /\ resp' = [op |-> "poll_list", listed |-> FALSE]
     ELSE \E active_jobs \in get_retirement_jobs(store, now, PollerWindowHours, Some("running")),
             pending_jobs \in get_retirement_jobs(store, now, PollerWindowHours, Some("pending")) :
          /\ poller' = PollerState("loop", PollQueue(active_jobs, pending_jobs), {},
                                   poller.last_checked_jobs, Len(active_jobs))
          /\ resp' = [op |-> "poll_list", listed |-> TRUE]

\* job.status != updated_job.status or job.job_id not in last_checked_jobs
ShouldEmit(job, updated_job, last_checked_jobs) ==
  job.status # updated_job.status \/ job.job_id \notin last_checked_jobs

\* variant: a failure while monitoring a job ends the cycle (the exception
\* reaches the except clause of the while loop)
PollerAfterJob_AbortOnFailure(p, job, failed) ==
  IF failed
  THEN PollerState("sleep", <<>>, {}, p.last_checked_jobs, 0)
  ELSE [p EXCEPT !.queue = Tail(@), !.current_jobs = @ \cup {job.job_id}]
\* the task after the loop body ran for one job: the job is in current_jobs
\* and the loop goes on with the next job, whether the body failed (its
\* except clause logs the exception) or not
PollerAfterJob(p, job, failed) ==
  [p EXCEPT !.queue = Tail(@), !.current_jobs = @ \cup {job.job_id}]

\* one pass of the for loop: monitor the job and emit its update; every
\* exception is caught by the except clause of the loop body
PollerMonitor(get, w1, w2, emitOK) ==
  /\ poller.pc = "loop"
  /\ poller.queue # <<>>
  /\ UNCHANGED <<AAP_TOKEN, job_monitor, orch, now, aap_status, mapped, tx, inflight, table>>
  /\ env' = [w1 |-> w1, w2 |-> w2, emitOK |-> emitOK]
  /\ req' = NoRequest
  /\ LET job == Head(poller.queue)
         r == monitor_job(job.job_id, job.target_hosts, job.job_type, get, w1, w2, now)
         failed == \/ r.ret = Raised
                   \/ r.ret = NoneRec
                   \/ (ShouldEmit(job, r.ret, poller.last_checked_jobs) /\ ~emitOK)
     IN /\ poller' = PollerAfterJob(poller, job, failed)
        /\ calls' = << [call |-> "get_job", job_id |-> job.job_id] >>
        /\ store' = ApplyStore(store, r.written)
        /\ history' = ApplyHistory(history, r.written, now)
        /\ HistoryBounded(history')
        /\ emitted' = IF /\ r.ret # Raised /\ r.ret # NoneRec
                         /\ ShouldEmit(job, r.ret, poller.last_checked_jobs)
                         /\ emitOK
                      THEN << JobUpdate(job.job_id, r.ret) @@ [target_hosts |-> r.ret.target_hosts] >>
                      ELSE <<>>
        /\ resp' = [op |-> "poll_job", job |-> job,
                    mon |-> MonCall(job.job_id, job.target_hosts, get, r)]

\* variant: the dashboard update is sent in every cycle
DashboardDue_Always(current_jobs) == TRUE
\* if len(current_jobs) > 0
DashboardDue(current_jobs) == Cardinality(current_jobs) > 0

\* variant: an exception after the for loop ends the task
PollerAfterCycle_DieOnFailure(p, ok) ==
  PollerState(IF ok THEN "sleep" ELSE "off", <<>>, {}, p.current_jobs, 0)
\* the task after the statistics part of an iteration, whether it raised
\* (the except clause of the while loop logs the exception) or not:
\* last_checked_jobs is current_jobs and the task sleeps
PollerAfterCycle(p, ok) == PollerState("sleep", <<>>, {}, p.current_jobs, 0)

\* after the for loop: remember the jobs seen, emit the dashboard update
\* when there were any; an exception (summary, emit) ends the iteration
PollerEnd(ok) ==
  /\ poller.pc = "loop"
  /\ poller.queue = <<>>
  /\ UNCHANGED <<AAP_TOKEN, job_monitor, store, history, orch, now, aap_status, mapped, tx, inflight, table>>
  /\ poller' = PollerAfterCycle(poller, ok)
  /\ calls' = <<>> /\ env' = [ok |-> ok]
  /\ req' = NoRequest
  /\ emitted' = IF DashboardDue(poller.current_jobs) /\ ok
                THEN << [event |-> "dashboard_stats_update",
                         total_active |-> poller.total_active] >>
                ELSE <<>>
  /\ resp' = [op |-> "poll_end"]

\* ------------------------------------------------------------ environment
\* two days pass
Tick ==
  /\ now < MaxTicks * TickSeconds
  /\ now' = now + TickSeconds
  /\ UNCHANGED <<AAP_TOKEN, job_monitor, store, history, orch, poller, aap_status, mapped, tx, inflight, table>>
  /\ resp' = [op |-> "tick"] /\ calls' = <<>> /\ emitted' = <<>> /\ env' = NoEnv
  /\ req' = NoRequest

\* ---------------------------------------------------------- specification
NoResponse == [op |-> "none"]

\* after start-up: the token is configured or not; run as the main program
\* with a token the monitor exists and the background task runs, otherwise
\* the monitor is created by the first tracked launch and no task runs
Init ==
  /\ AAP_TOKEN \in BOOLEAN
  /\ job_monitor \in {FALSE, AAP_TOKEN}
  /\ store = [k \in JobKeys |-> NoJob]
  /\ history = [k \in JobKeys |-> <<>>]
  /\ orch = [j \in JobIds |-> NoJob]
  /\ now = 0
  /\ poller = PollerState(IF job_monitor THEN "sleep" ELSE "off", <<>>, {}, {}, 0)
  /\ resp = NoResponse
  /\ calls = <<>>
  /\ emitted = <<>>
  /\ env = NoEnv
  /\ aap_status = W_empty
  /\ mapped = "unknown"
  /\ req = NoRequest
  /\ tx = NoTx
  /\ inflight = NoneInFlight
  /\ table = <<>>

\* one monitor call as the environment decides it: the answer to the GET,
\* whether the write of the try branch (w1) and of the except branch (w2)
\* succeed, whether the notification is delivered
MonitorEnv(get, w1, w2, emitOK) == [get |-> get, w1 |-> w1, w2 |-> w2, emitOK |-> emitOK]

\* every answer without a fault, and the faults on one answer of each branch
MonitorEnvs(o, j) ==
  { MonitorEnv(g, TRUE, TRUE, TRUE) : g \in GetOutcomes(o, j) }
    \cup { MonitorEnv(Timeout, TRUE, w2, e) : w2 \in BOOLEAN, e \in BOOLEAN }
    \cup (IF j \in DOMAIN o /\ o[j] # NoJob
          THEN { MonitorEnv(Response(OkStatus,
                     JobDoc(o[j].created, W_successful, Some(o[j].created),
                            Some(o[j].created + JobDurationSeconds), 0, Null, Null,
                            o[j].extra_vars)), w[1], w[2], w[3]) :
                   w \in { <<FALSE, TRUE, TRUE>>, <<FALSE, FALSE, TRUE>>,
                           <<TRUE, TRUE, FALSE>> } }
          ELSE {})

ProbeData == LaunchData(HostList(1, FALSE), Null)

\* a launch request stopped by the rate limit or by the credentials check
DoLaunchRejected ==
  \E gate \in { <<TRUE, TRUE>>, <<FALSE, FALSE>> } :
     launch_job(gate[1], gate[2], ProbeData, NoCall, TRUE, TRUE)

TrackedPosts(o) == { p \in PostOutcomes(o) : LaunchAccepted(p) /\ p.body.id # Null }

\* an admitted launch request, over every submission and every answer of
\* the orchestrator
DoLaunch ==
  \E data \in LaunchInputs, post \in PostOutcomes(orch) :
    \E db \in (IF post \in TrackedPosts(orch) THEN BOOLEAN ELSE {TRUE}),
       emitOK \in (IF post \in TrackedPosts(orch) THEN BOOLEAN ELSE {TRUE}) :
       launch_job(TRUE, FALSE, data, post, db, emitOK)

\* an admitted launch request of one valid submission that the orchestrator
\* accepts or that times out
SubmitData == LaunchData(HostList(ReversedCount, TRUE), Null)

DoSubmit ==
  \E post \in TrackedPosts(orch) \cup {Timeout} :
    \E db \in (IF post \in TrackedPosts(orch) THEN BOOLEAN ELSE {TRUE}) :
       launch_job(TRUE, FALSE, SubmitData, post, db, TRUE)

\* a synchronous monitor request without valid credentials, or without a
\* JSON body
DoMonitorRejected ==
  \E auth \in BOOLEAN : monitor_job_status(auth, Str(1), Null, Timeout, TRUE, TRUE, TRUE)

DoMonitor ==
  \E k \in JobKeys :
    \E e \in MonitorEnvs(orch, KeyId(k)) :
       monitor_job_status(TRUE, k, Some(<<>>), e.get, e.w1, e.w2, e.emitOK)

\* a synchronous monitor request that supplies the submitted target_hosts for
\* a launched job the store has no row of (its tracking write failed)
DoMonitorOwn ==
  \E k \in { x \in JobKeys : store[x] = NoJob /\ KeyId(x) \in DOMAIN orch
                                /\ orch[KeyId(x)] # NoJob } :
    \E get \in GetOutcomes(orch, KeyId(k)) :
       monitor_job_status(TRUE, k, Some(SubmitData.record_names), get,
                          TRUE, TRUE, TRUE)

\* a synchronous monitor request with its own target_hosts whose status
\* query fails
DoMonitorProbe ==
  \E k \in JobKeys, get \in {Timeout, Response(404, NotJson)} :
       monitor_job_status(TRUE, k, OwnHostsBody, get, TRUE, TRUE, TRUE)

DoDetailsRejected == get_job_details(FALSE, Str(1), Timeout, TRUE, TRUE)

DoDetails ==
  \E k \in JobKeys :
    \E e \in { x \in MonitorEnvs(orch, KeyId(k)) : x.emitOK } :
       get_job_details(TRUE, k, e.get, e.w1, e.w2)

DoJobs ==
  \E auth \in BOOLEAN :
       get_retirement_jobs_endpoint(auth, DefaultWindowHours, Null)

DoPollerList == \E db \in BOOLEAN : PollerList(db)

DoPollerMonitor ==
  /\ poller.pc = "loop"
  /\ poller.queue # <<>>
  /\ \E e \in MonitorEnvs(orch, KeyId(Head(poller.queue).job_id)) :
       PollerMonitor(e.get, e.w1, e.w2, e.emitOK)

DoPollerEnd == \E ok \in BOOLEAN : PollerEnd(ok)

\* the service: submissions, monitor refreshes, queries, the background task
Next ==
  \/ DoSubmit
  \/ DoMonitorRejected
  \/ DoMonitor
  \/ DoDetailsRejected
  \/ DoDetails
  \/ DoJobs
  \/ DoPollerList
  \/ DoPollerMonitor
  \/ DoPollerEnd
  \/ Tick

Spec == Init /\ [][Next]_vars

\* the launcher over all its inputs, on a store that monitor requests and
\* earlier launches have written
NextLaunch ==
  \/ DoLaunchRejected
  \/ DoLaunch
  \/ DoMonitorProbe
  \/ DoJobs

SpecLaunch == Init /\ [][NextLaunch]_vars

\* ------------------------------------------------- the status mapper alone
\* the word with the characters at the positions in S in upper case
Cased(word, S) ==
  [i \in 1..Len(word) |-> IF i \in S THEN UpperChar(word[i]) ELSE word[i]]

Upper(s) == [i \in 1..Len(s) |-> UpperChar(s[i])]

W_running_sp == W_running \o <<" ">>

MapperWords ==
  MapKeys \cup { W_unknown, W_new, W_bogus, W_cancelled, W_success, W_empty,
                 W_running_sp }

\* the statuses handed to the mapper: every word in every casing of its
\* first MaxCasePos characters and in upper case, and a null status
MapperInputs ==
  { Cased(w, S) : w \in MapperWords, S \in SUBSET (1..MaxCasePos) }
    \cup { Upper(w) : w \in MapperWords }
    \cup { NullStr }

\* one call of _map_aap_status
MapStatus(s) ==
  /\ aap_status' = s
  /\ mapped' = _map_aap_status(s)
  /\ UNCHANGED <<AAP_TOKEN, job_monitor, store, history, orch, now, poller,
                 resp, calls, emitted, env, req, tx, inflight, table>>

DoMapStatus == \E s \in MapperInputs : MapStatus(s)

\* job_data.get('status', 'unknown'): the status field of a job response is
\* missing, null or a string
MissingField == <<"<missing>">>
GetStatus(field) == IF field = MissingField THEN W_unknown ELSE field

\* the mapper as monitor_job calls it on a response without a status string
DoMapField == \E field \in {MissingField, NullStr} : MapStatus(GetStatus(field))

NextMapper ==
  \/ DoMapStatus
  \/ DoMapField

SpecMapper == Init /\ [][NextMapper]_vars

\* the synchronous monitor refresh on its own: submissions, refreshes of
\* tracked and of untracked jobs, the clock
NextRefresh ==
  \/ DoSubmit
  \/ DoMonitor
  \/ DoMonitorOwn
  \/ Tick

SpecRefresh == Init /\ [][NextRefresh]_vars

\* ------------------------------- monitor requests with their own host list
\* a synchronous monitor request for a tracked job whose body supplies
\* target_hosts of its own
DoMonitorHosts ==
  \E k \in { x \in JobKeys : store[x] # NoJob } :
    \E get \in GetOutcomes(orch, KeyId(k)) :
       monitor_job_status(TRUE, k, OwnHostsBody, get, TRUE, TRUE, TRUE)

NextHosts ==
  \/ DoSubmit
  \/ DoMonitorHosts

SpecHosts == Init /\ [][NextHosts]_vars

\* ------------------------------------------------ the background task alone
NextPoller ==
  \/ DoSubmit
  \/ DoPollerList
  \/ DoPollerMonitor
  \/ DoPollerEnd

SpecPoller == Init /\ [][NextPoller]_vars

\* ------------------------------------------------- the job monitor alone
\* AAPJobMonitor.monitor_job called directly (as the handlers and the
\* background task call it) with the writes of track_retirement_job applied
monitor_job_call(job_id, target_hosts, get, w1, w2) ==
  /\ job_monitor
  /\ UNCHANGED <<AAP_TOKEN, job_monitor, orch, now, poller, aap_status, mapped, tx, inflight, table>>
  /\ env' = [w1 |-> w1, w2 |-> w2, emitOK |-> TRUE]
  /\ req' = NoRequest
  /\ LET r == monitor_job(job_id, target_hosts, "retirement", get, w1, w2, now)
     IN /\ calls' = << [call |-> "get_job", job_id |-> job_id] >>
        /\ store' = ApplyStore(store, r.written)
        /\ history' = ApplyHistory(history, r.written, now)
        /\ HistoryBounded(history')
        /\ emitted' = <<>>
        /\ resp' = [ op |-> "monitor_job", job_id |-> job_id,
                     target_hosts |-> target_hosts, get |-> get, ret |-> r.ret ]

\* the answers to the status query: a failure, a 404, and job documents
\* running or successful, with started and finished absent or present (the
\* finish after the start or before it) and 0 to 2 failed hosts
MonitorAnswers ==
  LET MonitorTimings ==
        { <<Null, Null>>, <<Some(0), Null>>, <<Null, Some(0)>>,
          <<Some(0), Some(JobDurationSeconds)>>, <<Some(JobDurationSeconds), Some(0)>> }
      MonitorDocs ==
        { JobDoc(0, st, tm[1], tm[2], f, Null, Null, ExtraVars(SubmitData)) :
            st \in {W_running, W_successful}, tm \in MonitorTimings, f \in 0..2 }
  IN { Response(OkStatus, d) : d \in MonitorDocs } \cup {Timeout, Response(404, NotJson)}

\* monitor_job called with no, one or four target_hosts
DoMonitorJob ==
  \E target_hosts \in { HostList(n, FALSE) : n \in {0, 1, 4} }, get \in MonitorAnswers :
     monitor_job_call(Str(1), target_hosts, get, TRUE, TRUE)

\* the clock moves on by a second between two operations
ClockStep ==
  /\ now < MaxTicks
  /\ now' = now + 1
  /\ UNCHANGED <<AAP_TOKEN, job_monitor, store, history, orch, poller, resp,
                 calls, emitted, env, aap_status, mapped, req, tx, inflight, table>>

NextMonitor ==
  \/ DoMonitorJob
  \/ ClockStep

SpecMonitor == Init /\ [][NextMonitor]_vars

\* --------------------------------------- requests without valid credentials
\* the routes behind requires_auth, and the health probe
PageRoutes == {"index", "retirement_monitor", "status"}
ProtectedRoutes ==
  PageRoutes \cup {"test_connection", "launch", "jobs", "details", "monitor", "dashboard"}

RouteResponse(route, code) == [op |-> route, code |-> code]

\* a view that changes nothing outside its response
ReadOnly(route, auth, code) ==
  /\ resp' = RouteResponse(route, code)
  /\ req' = Request(route, auth, FALSE)
  /\ calls' = <<>> /\ emitted' = <<>> /\ env' = NoEnv
  /\ UNCHANGED <<AAP_TOKEN, job_monitor, store, history, orch, now, poller,
                 aap_status, mapped, tx, inflight, table>>

\* the limiter rejects the request before the view and its credentials check
\* run: the per-route limit of test_connection, the default limits elsewhere
rate_limit_exceeded(route, auth) ==
  /\ resp' = RouteResponse(route, 429)
  /\ req' = Request(route, auth, TRUE)
  /\ calls' = <<>> /\ emitted' = <<>> /\ env' = NoEnv
  /\ UNCHANGED <<AAP_TOKEN, job_monitor, store, history, orch, now, poller,
                 aap_status, mapped, tx, inflight, table>>

\* GET /, /retirement-monitor, /status
page(route, auth) ==
  ReadOnly(route, auth, IF AuthDenied(auth) THEN 401 ELSE 200)

\* GET /health
health(auth) == ReadOnly("health", auth, 200)

ApiRootOutcomes ==
  {Timeout, ConnectionError, Response(OkStatus, NotJson), Response(ErrorStatusFloor, NotJson)}

\* GET /api/test-connection
test_connection(auth, get) ==
  IF AuthDenied(auth) THEN ReadOnly("test_connection", auth, 401)
  ELSE IF ~AAP_TOKEN THEN ReadOnly("test_connection", auth, 500)
  ELSE /\ calls' = << [call |-> "api_root"] >>
       /\ resp' = RouteResponse("test_connection",
                     IF get.kind = "response" /\ get.status_code = OkStatus
                     THEN 200 ELSE 500)
       /\ req' = Request("test_connection", auth, FALSE)
       /\ emitted' = <<>> /\ env' = NoEnv
       /\ UNCHANGED <<AAP_TOKEN, job_monitor, store, history, orch, now, poller,
                      aap_status, mapped, tx, inflight, table>>

\* GET /api/retirement/dashboard
get_retirement_dashboard(auth) ==
  /\ req' = Request("dashboard", auth, FALSE)
  /\ calls' = <<>> /\ emitted' = <<>> /\ env' = NoEnv
  /\ UNCHANGED <<AAP_TOKEN, job_monitor, store, history, orch, now, poller,
                 aap_status, mapped, tx, inflight, table>>
  /\ IF AuthDenied(auth)
     THEN resp' = [op |-> "dashboard", code |-> 401, total_active |-> 0]
     ELSE \E active_jobs \in get_retirement_jobs(store, now, DefaultWindowHours, Some("running")) :
            resp' = [op |-> "dashboard", code |-> 200, total_active |-> Len(active_jobs)]

\* every route asked without valid credentials (a complete submission, a
\* complete monitor request), within or over the rate limit, on a store
\* that admitted launches have written
NextAuth ==
  \/ DoSubmit
  \/ \E limited \in BOOLEAN, post \in TrackedPosts(orch) \cup {Timeout} :
        launch_job(FALSE, limited, SubmitData, post, TRUE, TRUE)
  \/ \E k \in JobKeys :
        \E get \in GetOutcomes(orch, KeyId(k)) :
           monitor_job_status(FALSE, k, OwnHostsBody, get, TRUE, TRUE, TRUE)
  \/ \E k \in JobKeys :
        \E get \in GetOutcomes(orch, KeyId(k)) :
           get_job_details(FALSE, k, get, TRUE, TRUE)
  \/ DoJobs
  \/ \E route \in PageRoutes, auth \in BOOLEAN : page(route, auth)
  \/ \E auth \in BOOLEAN : health(auth)
  \/ \E auth \in BOOLEAN, get \in ApiRootOutcomes : test_connection(auth, get)
  \/ \E auth \in BOOLEAN : get_retirement_dashboard(auth)
  \/ \E route \in (ProtectedRoutes \ {"launch"}) \cup {"health"}, auth \in BOOLEAN :
        rate_limit_exceeded(route, auth)

SpecAuth == Init /\ [][NextAuth]_vars

\* ------------------------------------- store writes and reads, statement-wise
\* track_retirement_job statement by statement, next to the two store reads
\* of get_job_details.  store and history are the committed tables, which is
\* what every other connection reads; tx is the writer's open transaction.

\* the job the writers and the reader of this section work on
TxJob == Str(1)

\* the answers of the orchestrator behind the monitor writes of this section
TxAnswers ==
  { Response(OkStatus, JobDoc(0, W_running, Some(0), Null, 0, Null, Null,
                              ExtraVars(SubmitData))),
    Response(OkStatus, JobDoc(0, W_successful, Some(0), Some(JobDurationSeconds),
                              0, Null, Null, ExtraVars(SubmitData))) }

\* the job_metrics handed to track_retirement_job: the initial entry of a
\* launch and the entries of monitor_job
TxWrites(t) ==
  { LaunchMetrics(KeyId(TxJob), SubmitData.record_names, ExtraVars(SubmitData), t) }
    \cup { monitor_job(TxJob, SubmitData.record_names, "retirement", g, TRUE, TRUE, t).written[1] :
             g \in TxAnswers }

\* variant: each statement is committed as it executes
RowInsertVisible_Autocommit(st, job_metrics) == TrackStore(st, job_metrics)
\* the retirement_jobs table as other connections see it once the INSERT OR
\* REPLACE has executed inside the open transaction: unchanged until commit
RowInsertVisible(st, job_metrics) == st

\* with sqlite3.connect(...) as conn: one writer holds the database at a time
TxBegin(job_metrics) ==
  /\ tx.stage = "none"
  /\ tx' = [ stage |-> "begun", job_metrics |-> job_metrics,
             store0 |-> store, history0 |-> history ]
  /\ UNCHANGED <<AAP_TOKEN, job_monitor, store, history, orch, now, poller,
                 resp, calls, emitted, env, aap_status, mapped, req, inflight, table>>

\* conn.execute(INSERT OR REPLACE INTO retirement_jobs ...)
TxInsertRow ==
  /\ tx.stage = "begun"
  /\ tx' = [tx EXCEPT !.stage = "row"]
  /\ store' = RowInsertVisible(store, tx.job_metrics)
  /\ UNCHANGED <<AAP_TOKEN, job_monitor, history, orch, now, poller,
                 resp, calls, emitted, env, aap_status, mapped, req, inflight, table>>

\* conn.execute(INSERT INTO job_status_history ...)
TxInsertHistory ==
  /\ tx.stage = "row"
  /\ tx' = [tx EXCEPT !.stage = "history"]
  /\ UNCHANGED <<AAP_TOKEN, job_monitor, store, history, orch, now, poller,
                 resp, calls, emitted, env, aap_status, mapped, req, inflight, table>>

\* leaving the with block: both rows are committed
TxCommit ==
  /\ tx.stage = "history"
  /\ tx' = Closed("commit")
  /\ store' = TrackStore(store, tx.job_metrics)
  /\ history' = TrackHistory(history, tx.job_metrics, now)
  /\ HistoryBounded(history')
  /\ UNCHANGED <<AAP_TOKEN, job_monitor, orch, now, poller,
                 resp, calls, emitted, env, aap_status, mapped, req, inflight, table>>

\* a statement or the commit raises: the with block rolls the transaction back
TxRollback ==
  /\ tx.stage \in {"begun", "row", "history"}
  /\ tx' = Closed("rollback")
  /\ UNCHANGED <<AAP_TOKEN, job_monitor, store, history, orch, now, poller,
                 resp, calls, emitted, env, aap_status, mapped, req, inflight, table>>

\* get_job_details, first read: the job's row out of get_retirement_jobs
details_read_job(job_id) ==
  /\ \E jobs \in get_retirement_jobs(store, now, DetailWindowHours, Null) :
       resp' = [ op |-> "read_job", job_id |-> job_id, job |-> FindJob(jobs, job_id) ]
  /\ UNCHANGED <<AAP_TOKEN, job_monitor, store, history, orch, now, poller,
                 calls, emitted, env, aap_status, mapped, req, tx, inflight, table>>

\* get_job_details, second read: get_job_status_history, in a connection of
\* its own
details_read_history ==
  /\ resp.op = "read_job" /\ resp.job # NoJob
  /\ resp' = [ op |-> "read_history", job_id |-> resp.job_id, job |-> resp.job,
               status_history |-> history[resp.job_id] ]
  /\ UNCHANGED <<AAP_TOKEN, job_monitor, store, history, orch, now, poller,
                 calls, emitted, env, aap_status, mapped, req, tx, inflight, table>>

NextTx ==
  \/ \E job_metrics \in TxWrites(now) : TxBegin(job_metrics)
  \/ TxInsertRow
  \/ TxInsertHistory
  \/ TxCommit
  \/ TxRollback
  \/ details_read_job(TxJob)
  \/ details_read_history

SpecTx == Init /\ [][NextTx]_vars

\* --------------------------------------------- overlapping monitor calls
\* monitor_job in its two steps, the status query and the write of what it
\* answered, for two callers on the same job

\* what the orchestrator answers to a status query of the job: running
\* until the job has ended, successful from then on
OrchAnswer(finished) ==
  Response(OkStatus,
           IF finished
           THEN JobDoc(0, W_successful, Some(0), Some(JobDurationSeconds), 0, Null,
                       Null, ExtraVars(SubmitData))
           ELSE JobDoc(0, W_running, Some(0), Null, 0, Null, Null,
                       ExtraVars(SubmitData)))

\* the orchestrator's job ends
OrchFinish ==
  /\ ~inflight.finished
  /\ inflight' = [inflight EXCEPT !.finished = TRUE]
  /\ UNCHANGED <<AAP_TOKEN, job_monitor, store, history, orch, now, poller,
                 resp, calls, emitted, env, aap_status, mapped, req, tx, table>>

\* monitor_job up to the answer of requests.get
monitor_read(caller) ==
  /\ job_monitor
  /\ inflight.pending[caller] = NoRead
  /\ inflight.seq < MaxHistory
  /\ inflight' = [inflight EXCEPT !.seq = @ + 1,
                    !.latest = OrchAnswer(inflight.finished),
                    !.pending[caller] = [seq |-> inflight.seq + 1,
                                         get |-> OrchAnswer(inflight.finished)]]
  /\ calls' = << [call |-> "get_job", job_id |-> TxJob] >>
  /\ resp' = [op |-> "monitor_read", caller |-> caller]
  /\ emitted' = <<>> /\ env' = NoEnv /\ req' = NoRequest
  /\ UNCHANGED <<AAP_TOKEN, job_monitor, store, history, orch, now, poller,
                 aap_status, mapped, tx, table>>

\* monitor_job from the answer on: the job_metrics built from it are written
\* by track_retirement_job
monitor_write(caller) ==
  /\ inflight.pending[caller] # NoRead
  /\ LET read == inflight.pending[caller]
         r == monitor_job(TxJob, SubmitData.record_names, "retirement", read.get,
                          TRUE, TRUE, now)
     IN /\ store' = ApplyStore(store, r.written)
        /\ history' = ApplyHistory(history, r.written, now)
        /\ HistoryBounded(history')
        /\ inflight' = [inflight EXCEPT !.stored = read.seq, !.pending[caller] = NoRead]
        /\ resp' = [op |-> "monitor_write", caller |-> caller, ret |-> r.ret]
  /\ calls' = <<>> /\ emitted' = <<>> /\ env' = NoEnv /\ req' = NoRequest
  /\ UNCHANGED <<AAP_TOKEN, job_monitor, orch, now, poller, aap_status, mapped, tx, table>>

NextOverlap ==
  \/ OrchFinish
  \/ \E caller \in Callers : monitor_read(caller)
  \/ \E caller \in Callers : monitor_write(caller)
  \/ DoJobs

SpecOverlap == Init /\ [][NextOverlap]_vars

\* ------------------------------------- the background task, fairly scheduled
\* one launched job, the background task, and an orchestrator whose job has
\* ended: a status query times out, answers a status the mapper does not
\* know, or answers successful.  The task is
\* scheduled fairly and the successful answer comes whenever it is asked for
\* again and again.
PollerStep ==
  /\ poller.pc = "loop"
  /\ poller.queue # <<>>
  /\ \E get \in { Timeout, OrchAnswer(TRUE),
                  Response(OkStatus, JobDoc(0, W_bogus, Some(0), Null, 0, Null, Null,
                                            ExtraVars(SubmitData))) },
        emitOK \in BOOLEAN :
       PollerMonitor(get, TRUE, TRUE, emitOK)

NextLive ==
  \/ (orch[1] = NoJob /\ DoSubmit)
  \/ DoPollerList
  \/ PollerStep
  \/ DoPollerEnd
  \/ DoJobs

SpecLive ==
  /\ Init
  /\ [][NextLive]_vars
  /\ WF_vars(PollerList(TRUE))
  /\ WF_vars(PollerStep)
  /\ WF_vars(PollerEnd(TRUE))
  /\ SF_vars(PollerMonitor(OrchAnswer(TRUE), TRUE, TRUE, TRUE))

\* the same with no more than the scheduling of the task: each of its steps
\* is taken when it stays possible, whatever fails in it
SpecDurable ==
  /\ Init
  /\ [][NextLive]_vars
  /\ WF_vars(DoPollerList)
  /\ WF_vars(PollerStep)
  /\ WF_vars(DoPollerEnd)

\* ------------------------------------------ the two list queries of a cycle
\* the listing of background_job_monitoring query by query, next to a
\* synchronous refresh of the job

\* get_retirement_jobs(hours=48, status='running'): the first query; the
\* task keeps active_jobs.  pending_then notes the jobs that are pending at
\* this moment
poller_list_running ==
  /\ poller.pc = "sleep"
  /\ \E active_jobs \in get_retirement_jobs(store, now, PollerWindowHours, Some("running")) :
       poller' = [ pc |-> "listing", queue |-> active_jobs, current_jobs |-> {},
                   last_checked_jobs |-> poller.last_checked_jobs,
                   total_active |-> Len(active_jobs),
                   pending_then |-> { k \in JobKeys : store[k] # NoJob
                                                      /\ store[k].status = "pending" } ]
  /\ resp' = [op |-> "poll_list", listed |-> FALSE]
  /\ calls' = <<>> /\ emitted' = <<>> /\ env' = NoEnv /\ req' = NoRequest
  /\ UNCHANGED <<AAP_TOKEN, job_monitor, store, history, orch, now, aap_status,
                 mapped, tx, inflight, table>>

\* get_retirement_jobs(hours=48, status='pending'): the second query, and
\* the start of the for loop over active_jobs + pending_jobs
poller_list_pending ==
  /\ poller.pc = "listing"
  /\ \E pending_jobs \in get_retirement_jobs(store, now, PollerWindowHours, Some("pending")) :
       poller' = PollerState("loop", PollQueue(poller.queue, pending_jobs), {},
                             poller.last_checked_jobs, poller.total_active)
  /\ resp' = [op |-> "poll_list", listed |-> TRUE]
  /\ calls' = <<>> /\ emitted' = <<>> /\ env' = NoEnv /\ req' = NoRequest
  /\ UNCHANGED <<AAP_TOKEN, job_monitor, store, history, orch, now, aap_status,
                 mapped, tx, inflight, table>>

NextListing ==
  \/ (orch[1] = NoJob /\ DoSubmit)
  \/ poller_list_running
  \/ poller_list_pending
  \/ PollerStep
  \/ DoPollerEnd
  \/ \E finished \in BOOLEAN :
        monitor_job_status(TRUE, TxJob, Some(<<>>), OrchAnswer(finished), TRUE, TRUE, TRUE)
  \/ DoJobs

SpecListing == Init /\ [][NextListing]_vars

\* ------------------------------------------------- the retirement_jobs table
\* the table row by row: job_id is declared UNIQUE, and track_retirement_job
\* writes with INSERT OR REPLACE

\* variant: a plain INSERT into a table without the UNIQUE constraint
InsertOrReplace_Insert(rows, job_metrics) == Append(rows, job_metrics)
\* INSERT OR REPLACE: the rows that conflict on job_id are deleted, then the
\* new row is inserted
InsertOrReplace(rows, job_metrics) ==
  Append(SelectSeq(rows, LAMBDA r : r.job_id # job_metrics.job_id), job_metrics)

\* one call of track_retirement_job, by a launch or by monitor_job; calls of
\* several writers on the same job_id are serialised by the database
track_retirement_job(job_metrics) ==
  /\ table' = InsertOrReplace(table, job_metrics)
  /\ store' = TrackStore(store, job_metrics)
  /\ history' = TrackHistory(history, job_metrics, now)
  /\ HistoryBounded(history')
  /\ resp' = [op |-> "track", job_id |-> job_metrics.job_id]
  /\ calls' = <<>> /\ emitted' = <<>> /\ env' = NoEnv /\ req' = NoRequest
  /\ UNCHANGED <<AAP_TOKEN, job_monitor, orch, now, poller, aap_status, mapped,
                 tx, inflight>>

NextTable ==
  \/ \E job_metrics \in TxWrites(now), k \in JobKeys :
        track_retirement_job([job_metrics EXCEPT !.job_id = k])
  \/ DoJobs

SpecTable == Init /\ [][NextTable]_vars

\* ------------------------------- refreshes answered in the native vocabulary
\* launches, and monitor requests for a stored job that the orchestrator
\* answers with a document in any state of its own vocabulary (in any
\* case), a state it does not document, no state at all, or not at all
NextNative ==
  \/ DoSubmit
  \/ LET NativeStates == { W_pending, W_waiting, W_running, W_successful, W_failed,
                           W_error, W_canceled, W_never_updated, W_new, W_bogus,
                           W_empty, NullStr, Upper(W_waiting), Upper(W_canceled) }
         NativeAnswers ==
           { Response(OkStatus, JobDoc(0, st, Null, Null, 0, Null, Null,
                                       ExtraVars(SubmitData))) : st \in NativeStates }
             \cup {Timeout, Response(404, NotJson), Response(OkStatus, NotJson)}
     IN \E k \in { x \in JobKeys : store[x] # NoJob }, get \in NativeAnswers :
           monitor_job_status(TRUE, k, Some(<<>>), get, TRUE, TRUE, TRUE)

SpecNative == Init /\ [][NextNative]_vars

\* ================================================================ claims
\* ------------------------------------------------------------------- C1
\* C1 (as stated): a launch submission with 0 hosts or more than 5 hosts
\* always fails with a 4xx validation error, in every configuration, and has
\* no side effects: no outbound call, no JobRecord, no history entry, no
\* notification.
C1_AsStated ==
  [][ (resp'.op = "launch"
        /\ (Len(resp'.record_names) = 0 \/ Len(resp'.record_names) > 5))
      => /\ resp'.code \in 400..499
         /\ ~resp'.success
         /\ calls' = <<>>
         /\ store' = store /\ history' = history
         /\ emitted' = <<>> ]_vars

\* C1 (amended): a launch submission with 0 hosts or more than 5 hosts
\* always fails and has no side effects (no outbound call, no JobRecord, no
\* history entry, no notification); the failure is a 4xx when the orchestrator
\* token is configured (400 for an admitted request), and the 500
\* configuration error for an admitted request when no token is configured.
C1_InvalidCountRejected ==
  [][ (resp'.op = "launch"
        /\ (Len(resp'.record_names) = 0 \/ Len(resp'.record_names) > 5))
      => /\ ~resp'.success
         /\ (AAP_TOKEN => resp'.code \in 400..499)
         /\ (resp'.admitted => resp'.code = (IF AAP_TOKEN THEN 400 ELSE 500))
         /\ calls' = <<>>
         /\ store' = store /\ history' = history
         /\ emitted' = <<>> ]_vars

\* an admitted submission of more than 5 hosts was refused with 400 while the
\* store held a record
C1_Witness ==
  /\ resp.op = "launch" /\ resp.admitted
  /\ Len(resp.record_names) > 5
  /\ resp.code = 400
  /\ calls = <<>>
  /\ \E k \in JobKeys : store[k] # NoJob

\* ------------------------------------------------------------------- C2
\* C2 (as stated): a valid submission (1 to 5 hosts) returns success if and
\* only if the orchestrator's launch call returned a success status without
\* timing out or erroring.
C2_AsStated ==
  (resp.op = "launch" /\ Len(resp.record_names) \in 1..5)
    => (resp.success <=> (resp.post.kind = "response"
                           /\ resp.post.status_code < 400))

\* C2 (amended): a valid submission (1 to 5 hosts) returns success if and
\* only if the orchestrator's launch call returned, without timing out or
\* erroring, a status below 400 with a body that parses as a JSON object.
C2_SuccessIffAccepted ==
  (resp.op = "launch" /\ Len(resp.record_names) \in 1..5)
    => (resp.success <=> (/\ resp.post.kind = "response"
                          /\ resp.post.status_code < 400
                          /\ resp.post.body # NotJson))

\* a valid submission succeeded, and the answer carried a job id
C2_Witness ==
  /\ resp.op = "launch"
  /\ Len(resp.record_names) \in 1..5
  /\ resp.success
  /\ resp.post.kind = "response"
  /\ resp.job_id # Null

C4_AsStated ==
  (resp.op = "launch" /\ resp.success)
    => /\ resp.job_id # Null
       /\ LET k == Str(resp.job_id[1])
          IN /\ store[k] # NoJob
             /\ store[k].job_id = k
             /\ store[k].status = "pending"
             /\ store[k].target_hosts = resp.record_names
             /\ \A q \in get_retirement_jobs(store, now, DefaultWindowHours, Null) :
                  /\ Cardinality({ i \in 1..Len(q) : q[i].job_id = k }) = 1
                  /\ \A i \in 1..Len(q) : q[i].job_id = k =>
                        /\ q[i].status = "pending"
                        /\ q[i].target_hosts = resp.record_names

\* C4 (amended): after a launch that the orchestrator accepts with a job
\* identifier and whose local record write succeeds, the store holds exactly
\* one JobRecord keyed by the decimal string of that identifier, with status
\* pending and the submitted hostnames in the submitted order, and a job
\* query made right after returns exactly one record for that job, with
\* these values.
C4_AcceptedLaunchRecorded ==
  (resp.op = "launch" /\ resp.success /\ resp.job_id # Null /\ env.db)
    => LET k == Str(resp.job_id[1])
       IN /\ store[k] # NoJob
          /\ store[k].job_id = k
          /\ store[k].status = "pending"
          /\ store[k].target_hosts = resp.record_names
          /\ Cardinality({ x \in JobKeys : store[x] # NoJob /\ store[x].job_id = k }) = 1
          /\ \A q \in get_retirement_jobs(store, now, DefaultWindowHours, Null) :
               /\ Cardinality({ i \in 1..Len(q) : q[i].job_id = k }) = 1
               /\ \A i \in 1..Len(q) : q[i].job_id = k =>
                     /\ q[i].status = "pending"
                     /\ q[i].target_hosts = resp.record_names

\* an accepted launch of two hosts submitted in descending order was
\* recorded, next to the record of another job
C4_Witness ==
  /\ resp.op = "launch" /\ resp.success /\ resp.job_id # Null /\ env.db
  /\ resp.record_names = <<HostName(2), HostName(1)>>
  /\ store[Str(resp.job_id[1])] # NoJob
  /\ store[Str(resp.job_id[1])].target_hosts = <<HostName(2), HostName(1)>>
  /\ \E x \in JobKeys : x # Str(resp.job_id[1]) /\ store[x] # NoJob

\* ------------------------------------------------------------------- C5
\* C5 (as stated): a valid launch submission issues exactly one outbound
\* call to the orchestrator's job-launch endpoint: never zero, never more
\* than one, no retry after a failure, no status query.
C5_AsStated ==
  (resp.op = "launch" /\ resp.admitted /\ Len(resp.record_names) \in 1..5)
    => (Len(calls) = 1 /\ calls[1].call = "launch")

\* C5 (amended): a valid launch submission that is admitted on a service
\* with the orchestrator token configured issues exactly one outbound call
\* to the job-launch endpoint (no retry after a failure, no status query);
\* with no token configured it issues none.
C5_OneLaunchCall ==
  (resp.op = "launch" /\ resp.admitted /\ Len(resp.record_names) \in 1..5)
    => IF AAP_TOKEN
       THEN Len(calls) = 1 /\ calls[1].call = "launch"
       ELSE calls = <<>>

\* a valid submission whose launch call timed out made one call
C5_Witness ==
  /\ resp.op = "launch" /\ resp.admitted
  /\ Len(resp.record_names) \in 1..5
  /\ resp.post.kind = "timeout"
  /\ Len(calls) = 1

\* ------------------------------------------------------------------- C6
\* C6: once the orchestrator has accepted a launch, a failure of the local
\* JobRecord write or of the job_started notification does not change the
\* response: the caller receives the success response with the job
\* identifier and the job URL.
C6_TrackingFailureNotSurfaced ==
  (/\ resp.op = "launch"
   /\ resp.post.kind = "response"
   /\ resp.post.status_code < 400
   /\ resp.post.body # NotJson
   /\ resp.post.body.id # Null
   /\ (~env.db \/ ~env.emitOK))
    => /\ resp.code = 200
       /\ resp.success
       /\ resp.job_id = resp.post.body.id
       /\ resp.job_url = resp.post.body.url
       /\ resp.job_url # Null

\* an accepted launch whose record write failed: nothing stored, success
\* answered
C6_Witness ==
  /\ resp.op = "launch"
  /\ resp.success
  /\ resp.job_id # Null
  /\ ~env.db
  /\ store[Str(resp.job_id[1])] = NoJob

\* ------------------------------------------------------------------- C7
\* C7: every call to the Job Monitor (the query answers 200, answers
\* non-200, times out or raises) upserts one JobRecord for the job_id and
\* appends exactly one history entry: the history of the job grows by one
\* per call.  (Stated for calls whose store writes are not made to fail.)
C7_EveryMonitorCallRecords ==
  [][ (/\ resp'.op \in {"monitor", "details", "poll_job"}
       /\ resp'.mon # NoMonCall
       /\ env'.w1 /\ env'.w2)
      => /\ store'[resp'.mon.job_id] # NoJob
         /\ Len(history'[resp'.mon.job_id]) = Len(history[resp'.mon.job_id]) + 1 ]_vars

\* ------------------------------------------------------------------- C8
\* C8: when the Monitor's orchestrator query fails (network error, timeout,
\* non-200 response), the Monitor stores and returns a JobRecord with status
\* error and a non-empty errors list, and appends exactly one history entry.
\* (Stated for calls whose store writes are not made to fail.)
C8_QueryFailureRecorded ==
  [][ (/\ resp'.op \in {"monitor", "details", "poll_job"}
       /\ resp'.mon # NoMonCall
       /\ (resp'.mon.get.kind # "response" \/ resp'.mon.get.status_code # 200)
       /\ env'.w1 /\ env'.w2)
      => /\ resp'.mon.ret # NoneRec
         /\ resp'.mon.ret # Raised
         /\ resp'.mon.ret.status = "error"
         /\ resp'.mon.ret.errors # <<>>
         /\ store'[resp'.mon.job_id] # NoJob
         /\ store'[resp'.mon.job_id].status = "error"
         /\ store'[resp'.mon.job_id].errors # <<>>
         /\ Len(history'[resp'.mon.job_id]) = Len(history[resp'.mon.job_id]) + 1 ]_vars

\* ------------------------------------------------------------------- C9
\* C9: a JobRecord whose stored status is successful or failed is not
\* overwritten with a different status by a Monitor refresh unless the
\* orchestrator itself reports a different status: never because a status
\* query failed.
C9_TerminalNotOverwritten ==
  [][ \A k \in JobKeys :
        (/\ store[k] # NoJob
         /\ store[k].status \in {"successful", "failed"}
         /\ store'[k].status # store[k].status
         /\ resp'.op \in {"monitor", "details", "poll_job"}
         /\ resp'.mon # NoMonCall)
        => /\ resp'.mon.get.kind = "response"
           /\ resp'.mon.get.status_code = 200
           /\ resp'.mon.get.body # NotJson
           /\ _map_aap_status(resp'.mon.get.body.status) # store[k].status ]_vars

\* ------------------------------------------------------------------ C11
\* C11: the Status Mapper is total: for every value the status field of a
\* job response can take, a missing or null status included, the mapper
\* gives a canonical status and does not fail.
C11_MapperTotal ==
  mapped \in CanonicalStatuses

\* ------------------------------------------------------------------ C10
\* C10: the Status Mapper maps a status string, compared without regard to
\* case, by the table pending->pending, waiting->pending, 'never
\* updated'->pending, running->running, successful->successful,
\* failed->failed, error->failed, canceled->failed, maps every other string
\* to unknown, and never returns a value outside {pending, running,
\* successful, failed, unknown}.
C10_StatusTable ==
  (aap_status # NullStr)
    => LET u == Upper(aap_status)
       IN /\ (u = Upper(W_pending) => mapped = "pending")
          /\ (u = Upper(W_waiting) => mapped = "pending")
          /\ (u = Upper(W_never_updated) => mapped = "pending")
          /\ (u = Upper(W_running) => mapped = "running")
          /\ (u = Upper(W_successful) => mapped = "successful")
          /\ (u = Upper(W_failed) => mapped = "failed")
          /\ (u = Upper(W_error) => mapped = "failed")
          /\ (u = Upper(W_canceled) => mapped = "failed")
          /\ (u \notin { Upper(W_pending), Upper(W_waiting), Upper(W_never_updated),
                         Upper(W_running), Upper(W_successful), Upper(W_failed),
                         Upper(W_error), Upper(W_canceled) }
                => mapped = "unknown")
          /\ mapped \in {"pending", "running", "successful", "failed", "unknown"}

\* "RUNNING" was mapped to running
C10_Witness ==
  /\ aap_status = <<"R","U","N","N","I","N","G">>
  /\ mapped = "running"

\* ------------------------------------------------------------------ C12
\* C12: duration_seconds of a JobRecord is never negative in any reachable
\* state: when the orchestrator reports a finish timestamp that precedes the
\* start timestamp, the Monitor stores duration_seconds as null.
C12_DurationNeverNegative ==
  /\ \A k \in JobKeys :
       (store[k] # NoJob /\ store[k].duration_seconds # Null)
         => store[k].duration_seconds[1] >= 0
  /\ (/\ resp.op = "monitor_job"
      /\ resp.get.kind = "response" /\ resp.get.status_code = 200
      /\ resp.get.body.started # Null /\ resp.get.body.finished # Null
      /\ resp.get.body.finished[1] < resp.get.body.started[1])
       => store[resp.job_id].duration_seconds = Null

\* ------------------------------------------------------------------ C13
\* C13: on a successful Monitor query, duration_seconds is the finish
\* timestamp minus the start timestamp in seconds when the orchestrator
\* reports both, and null when the finish or the start timestamp is absent;
\* the value is returned and stored.
C13_DurationComputed ==
  (/\ resp.op = "monitor_job"
   /\ resp.get.kind = "response" /\ resp.get.status_code = 200)
    => /\ resp.ret # Raised /\ resp.ret # NoneRec
       /\ IF resp.get.body.started # Null /\ resp.get.body.finished # Null
          THEN resp.ret.duration_seconds
                 = <<resp.get.body.finished[1] - resp.get.body.started[1]>>
          ELSE resp.ret.duration_seconds = Null
       /\ store[resp.job_id].duration_seconds = resp.ret.duration_seconds

\* a job started at T and finished at T+300 was stored with a duration of 300
C13_Witness ==
  /\ resp.op = "monitor_job"
  /\ resp.get.kind = "response" /\ resp.get.status_code = 200
  /\ resp.get.body.started = <<0>> /\ resp.get.body.finished = <<300>>
  /\ store[resp.job_id] # NoJob
  /\ store[resp.job_id].duration_seconds = <<300>>

\* ------------------------------------------------------------------ C14
\* C14: success_rate of every stored JobRecord lies in [0,100] in every
\* reachable state, for every failed-host count the orchestrator reports and
\* every target-host list the Monitor is called with.
C14_SuccessRateInRange ==
  \A k \in JobKeys :
    store[k] # NoJob
      => /\ store[k].success_rate.den > 0
         /\ store[k].success_rate.num >= 0
         /\ store[k].success_rate.num <= 100 * store[k].success_rate.den

\* ------------------------------------------------------------------ C15
\* C15: on a successful Monitor query, success_rate equals
\* (total_hosts - failed_hosts) / total_hosts * 100, with total_hosts the
\* number of target hosts and failed_hosts the reported failure count, and 0
\* when total_hosts is 0; the value is returned and stored.
C15_SuccessRateComputed ==
  (/\ resp.op = "monitor_job"
   /\ resp.get.kind = "response" /\ resp.get.status_code = 200)
    => /\ resp.ret # Raised /\ resp.ret # NoneRec
       /\ resp.ret.success_rate.den > 0
       /\ IF Len(resp.target_hosts) = 0
          THEN resp.ret.success_rate.num = 0
          ELSE resp.ret.success_rate.num * Len(resp.target_hosts)
                 = (Len(resp.target_hosts) - resp.get.body.failed) * 100
                     * resp.ret.success_rate.den
       /\ store[resp.job_id].success_rate = resp.ret.success_rate

\* four target hosts of which one failed gave a success rate of 75
C15_Witness ==
  /\ resp.op = "monitor_job"
  /\ resp.get.kind = "response" /\ resp.get.status_code = 200
  /\ Len(resp.target_hosts) = 4
  /\ resp.get.body.failed = 1
  /\ store[resp.job_id] # NoJob
  /\ store[resp.job_id].success_rate.num = 75 * store[resp.job_id].success_rate.den

\* ------------------------------------------------------------------ C16
\* C16: calling the Job Monitor twice in immediate succession for the same
\* job while the orchestrator's reported state is unchanged leaves the same
\* JobRecord fields after the second call as after the first; only the
\* history differs, by one more entry.
C16_MonitorIdempotent ==
  [][ (/\ resp.op = "monitor_job"
       /\ resp.get.kind = "response" /\ resp.get.status_code = 200
       /\ resp.ret # Raised /\ resp.ret # NoneRec
       /\ resp'.op = "monitor_job"
       /\ now' = now
       /\ resp'.job_id = resp.job_id
       /\ resp'.target_hosts = resp.target_hosts
       /\ resp'.get = resp.get)
      => /\ store'[resp.job_id] = store[resp.job_id]
         /\ Len(history'[resp.job_id]) = Len(history[resp.job_id]) + 1 ]_vars

\* ------------------------------------------------------------------ C17
\* C17: within one cycle of the Background Poller a failure while monitoring
\* one job is caught and does not keep any other listed job from being
\* monitored: as long as listed jobs remain, the only step the task takes is
\* to monitor the next listed job, whatever happened to the job before.
C17_PollerCycleContinues ==
  [][ (poller.pc = "loop" /\ poller.queue # <<>> /\ poller' # poller)
      => /\ poller'.pc = "loop"
         /\ poller'.queue = Tail(poller.queue)
         /\ poller'.current_jobs = poller.current_jobs \cup {Head(poller.queue).job_id}
         /\ resp'.op = "poll_job"
         /\ resp'.job = Head(poller.queue)
         /\ calls' = << [call |-> "get_job", job_id |-> Head(poller.queue).job_id] >> ]_vars

\* two jobs were monitored in one cycle although the monitoring of each
\* failed without a write
C17_Witness ==
  /\ resp.op = "poll_job"
  /\ (resp.mon.ret = Raised \/ resp.mon.ret = NoneRec)
  /\ poller.pc = "loop" /\ poller.queue = <<>>
  /\ Cardinality(poller.current_jobs) = 2
  /\ \A k \in poller.current_jobs :
       store[k].status = "pending" /\ Len(history[k]) = 1

\* ------------------------------------------------------------------ C18
\* C18: target_hosts of a JobRecord is immutable after creation: whatever
\* Monitor refreshes run after the launch created the record (a synchronous
\* monitor request with its own target_hosts included), the stored
\* target_hosts stays the host list submitted at launch.
C18_TargetHostsImmutable ==
  [][ \A k \in JobKeys :
        store[k] # NoJob
          => /\ store'[k] # NoJob
             /\ store'[k].target_hosts = store[k].target_hosts ]_vars

\* ------------------------------------------------------------------ C19
\* C19 as stated: every operation behind the credentials check answers a
\* request without valid Basic credentials with 401 and makes no orchestrator
\* call, no store write and no notification; the health probe answers 200
\* without credentials.
NoEffects ==
  /\ calls' = <<>>
  /\ emitted' = <<>>
  /\ store' = store
  /\ history' = history

C21_NewerReadWins ==
  (/\ \A c \in Callers : inflight.pending[c] = NoRead
   /\ inflight.seq > 1)
    => /\ store[TxJob] # NoJob
       /\ store[TxJob].status = _map_aap_status(inflight.latest.body.status)

\* ------------------------------------------------------------------ C22
\* C22: with the background task running and fairly scheduled, a stored job
\* whose orchestrator job has ended successfully, and whose status queries
\* succeed in the end, eventually has the stored status successful without a
\* synchronous refresh, also after a monitor call for it failed.
C22_TerminalEventuallyStored ==
  (poller.pc # "off" /\ store[TxJob] # NoJob)
    ~> (store[TxJob] # NoJob /\ store[TxJob].status \in {"successful", "failed"})

\* ------------------------------------------------------------------ C23
\* C23: a cycle of the background task monitors exactly once every job that
\* is pending or running while the cycle lists the jobs, and monitors no job
\* that it read as successful or failed.
C23_ListedExactlyOnce ==
  [][ (poller.pc = "listing" /\ poller'.pc = "loop") =>
        /\ \A k \in poller.pending_then :
             store[k].status \in {"pending", "running"} =>
               Cardinality({ i \in DOMAIN poller'.queue : poller'.queue[i].job_id = k }) = 1
        /\ \A i \in DOMAIN poller'.queue :
             poller'.queue[i].status \notin {"successful", "failed"} ]_vars

\* ------------------------------------------------------------------ C24
\* C24: when the background task has monitored a job, a job_update is
\* emitted if the job's status after the refresh differs from the status the
\* cycle listed or the job was not seen in the previous cycle, and none is
\* emitted otherwise (the store and the notification sink working).
C24_UpdateEmittedWhenDue ==
  [][ (resp'.op = "poll_job" /\ env'.w1 /\ env'.w2 /\ env'.emitOK) =>
        LET job == resp'.job
            due == \/ store'[job.job_id].status # job.status
                   \/ job.job_id \notin poller.last_checked_jobs
        IN (emitted' # <<>>) <=> due ]_vars

\* ------------------------------------------------------------------ C25
\* C25: the background task, once started, is never terminated by a failure
\* in an iteration (listing, monitoring, notifying, statistics): after every
\* step it is still running, every iteration ends in the sleep, and a next
\* cycle always starts.
C25_PollerDurable ==
  /\ [][poller.pc # "off" => poller'.pc # "off"]_vars
  /\ (poller.pc = "loop") ~> (poller.pc = "sleep")
  /\ [](poller.pc # "off" => <>(resp.op = "poll_list"))

\* the statistics part of a cycle with jobs failed and the task sleeps
C25_Witness ==
  /\ resp.op = "poll_end" /\ ~env.ok
  /\ poller.pc = "sleep"
  /\ poller.last_checked_jobs # {}

C27_HistoryAppendOnly ==
  [][ \A k \in JobKeys :
        /\ Len(history'[k]) >= Len(history[k])
        /\ SubSeq(history'[k], 1, Len(history[k])) = history[k] ]_vars

\* a query answered after a launch and a refresh left two entries for a job
C27_Witness ==
  /\ resp.op = "jobs" /\ resp.code = 200
  /\ \E k \in JobKeys : Len(history[k]) > 1

\* ------------------------------------------------------------------ C28
\* C28: job_id is unique across the store in every reachable state: after
\* any sequence of tracking writes, repeated ones for the same job_id
\* included, the table holds at most one row per job_id, the keyed store is
\* that row, and a job_id once stored is never removed.
C28_JobIdUnique ==
  /\ [](\A i, j \in DOMAIN table : table[i].job_id = table[j].job_id => i = j)
  /\ [](\A k \in JobKeys :
          IF store[k] = NoJob
          THEN \A i \in DOMAIN table : table[i].job_id # k
          ELSE \E i \in DOMAIN table : table[i] = store[k])
  /\ [][ \A i \in DOMAIN table :
           \E j \in DOMAIN table' : table'[j].job_id = table[i].job_id ]_vars

\* a job_id was written a second time, with another status, and has one row
C28_Witness ==
  \E k \in JobKeys :
    /\ Len(history[k]) > 1
    /\ history[k][1].status # history[k][2].status
    /\ Cardinality({ i \in DOMAIN table : table[i].job_id = k }) = 1

\* ------------------------------------------------------------------ C29
\* C29: the extra_vars (and the template id) a JobRecord stores are the
\* launch-time values in every state after its creation: a monitor refresh
\* of a stored job, whether the orchestrator query succeeds or fails, leaves
\* both fields of the stored record as they were.
C29_LaunchPayloadKept ==
  [][ resp'.op = "monitor" =>
        \A k \in JobKeys :
           (store[k] # NoJob /\ store'[k] # NoJob) =>
              /\ store'[k].extra_vars = store[k].extra_vars
              /\ store'[k].aap_template_id = store[k].aap_template_id ]_vars

\* ------------------------------------------------------------------ C30
\* C30: in every reachable state the status of every stored JobRecord and
\* of every StatusHistoryEntry is one of pending, running, successful,
\* failed, error, unknown; no status of the orchestrator's own vocabulary
\* (waiting, canceled, never updated) is ever stored.
C30_StoredStatusCanonical ==
  \A k \in JobKeys :
     /\ store[k] # NoJob => store[k].status \in CanonicalStatuses \cup {"error"}
     /\ \A i \in DOMAIN history[k] :
           history[k][i].status \in CanonicalStatuses \cup {"error"}

\* a refresh answered waiting, canceled or never updated was stored
C30_Witness ==
  /\ resp.op = "monitor" /\ resp.code = 200
  /\ resp.mon.get.kind = "response"
  /\ resp.mon.get.body # NotJson
  /\ Lower(resp.mon.get.body.status) \in {W_waiting, W_canceled, W_never_updated}
  /\ store[resp.job_id].status \in {"pending", "failed"}
  /\ Len(history[resp.job_id]) > 1
  /\ history[resp.job_id][Len(history[resp.job_id])].status = store[resp.job_id].status

====
